---- MODULE Spec2Model ----
(***************************************************************************)
(* Model of the two simulation notebooks of the repository:                *)
(*   - 2D_Lightning_F2021.ipynb : solvepoisson (relaxation solver) and the *)
(*     lightning growth loop;                                              *)
(*   - the polar-molecule notebook : make_liquid and the Euler-Cromer      *)
(*     integration loop.                                                   *)
(* Potentials are exact rationals with the common denominator One: a       *)
(* potential v is stored as the integer v*One, and One = 12^nrep makes     *)
(* every mean over 2, 3 or 4 neighbours of nrep sweeps an exact division.  *)
(***************************************************************************)
EXTENDS Integers, Sequences, FiniteSets, TLC

(***************************************************************************)
(* Bounds                                                                  *)
(***************************************************************************)
\* grid of the lightning simulation (50 x 50 in the notebook)
Lx == 3
Ly == 4
\* number of Jacobi sweeps of one solve (3000 in the notebook)
nrep == 3
\* grid of the stand-alone calls of solvepoisson
SolveLx == 3
SolveLy == 3
\* largest number of cells with a specified value in a stand-alone call
MaxFixed == 3
\* the random factors take the values 0/(RMax+1) .. RMax/(RMax+1)
RMax == 1
\* grid_dims of the molecular simulation ([4,4] in the notebook)
GridX == 3
GridY == 1
\* number of timesteps (5000 in the notebook)
Timesteps == 20
\* the largest number of timesteps of the runs that vary it
MaxSteps == 41

(***************************************************************************)
(* Values                                                                  *)
(***************************************************************************)
\* np.float('nan'): the marker of a cell without a value
NaN == -1
isnan(v) == v = NaN
\* the potential 1.0
One == 12 ^ nrep

Grid(lx, ly) == (0 .. lx - 1) \X (0 .. ly - 1)
\* np.size(b,0), np.size(b,1)
SizeX(a) == Cardinality({p[1] : p \in DOMAIN a})
SizeY(a) == Cardinality({p[2] : p \in DOMAIN a})

VARIABLES
  \* one call of solvepoisson, cell by cell
  sp_b, sp_nrep,      \* the arguments
  sp_buf,             \* the arrays allocated by the call, by reference
  sp_z, sp_znew,      \* the references held by the names z and znew
  sp_n, sp_ix, sp_iy, \* the loop indices
  sp_pc,              \* "start", "cell", "swap", "done"
  sp_ret,             \* the returned array
  sp_hist             \* history: the array z after sweep 0, 1, 2, ...

VARIABLES
  \* the lightning notebook's globals
  b,                  \* boundary values and the lightning's path
  zeroneighbor,       \* NaN where the lightning can move
  c,                  \* the path, numbered by iteration
  s,                  \* the potential of the latest solve
  ymin, ns,
  ix, iy,             \* the cell of the latest choice
  lpc,                \* "while" (at the loop test), "sweep", "choose"
  sol_z, sol_n,       \* the array z and the index n of the solve under way
  path                \* history: the chosen cells in order

VARIABLES
  \* the molecular-dynamics notebook's globals
  timesteps,
  position_H, position_Cl, velocity_H, velocity_Cl,
  acceleration_H, acceleration_Cl, coulomb_acc_H, coulomb_acc_Cl,
  spring_acc_H, spring_acc_Cl,
  t, i,               \* the loop indices
  mpc,                \* "for", "spring", "coulomb", "integrate", "done",
                      \* "error" (an exception ended the cell)
  printed,            \* the lines printed
  iters,              \* history: the values t the loop body was entered with
  writes,             \* history: per array, the pairs <<row, iteration>> of
                      \* the writes, in order
  nterms              \* history: the number of force terms summed for each
                      \* atom in the latest Coulomb pass

varsP == <<sp_b, sp_nrep, sp_buf, sp_z, sp_znew, sp_n, sp_ix, sp_iy, sp_pc,
           sp_ret, sp_hist>>
varsL == <<b, zeroneighbor, c, s, ymin, ns, ix, iy, lpc, sol_z, sol_n, path>>
varsM == <<timesteps, position_H, position_Cl, velocity_H, velocity_Cl,
           acceleration_H, acceleration_Cl, coulomb_acc_H, coulomb_acc_Cl,
           spring_acc_H, spring_acc_Cl, t, i, mpc, printed, iters, writes,
           nterms>>
vars == <<varsP, varsL, varsM>>

\* the state of a notebook that is not run
IdleP ==
  /\ sp_b = <<>> /\ sp_nrep = 0 /\ sp_buf = <<>> /\ sp_z = 0 /\ sp_znew = 0
  /\ sp_n = 0 /\ sp_ix = 0 /\ sp_iy = 0 /\ sp_pc = "idle" /\ sp_ret = <<>>
  /\ sp_hist = <<>>
IdleL ==
  /\ b = <<>> /\ zeroneighbor = <<>> /\ c = <<>> /\ s = <<>> /\ ymin = 0
  /\ ns = 0 /\ ix = 0 /\ iy = 0 /\ lpc = "idle" /\ path = <<>>
  /\ sol_z = <<>> /\ sol_n = 0
IdleM ==
  /\ timesteps = 0 /\ position_H = <<>> /\ position_Cl = <<>>
  /\ velocity_H = <<>> /\ velocity_Cl = <<>> /\ acceleration_H = <<>>
  /\ acceleration_Cl = <<>> /\ coulomb_acc_H = <<>> /\ coulomb_acc_Cl = <<>>
  /\ spring_acc_H = <<>> /\ spring_acc_Cl = <<>> /\ t = 0 /\ i = 0
  /\ mpc = "idle" /\ printed = <<>> /\ iters = <<>> /\ writes = <<>>
  /\ nterms = 0

(***************************************************************************)
(* solvepoisson                                                            *)
(***************************************************************************)
\* z = np.copy(b); z[np.where(np.isnan(b))] = 0.0
ZeroNaN(bb) == [p \in DOMAIN bb |-> IF isnan(bb[p]) THEN 0 ELSE bb[p]]

\* the reference of the array a np.copy of the array behind r creates
CopyAlias(r) == r
CopyRef(r) == r + 1

\* the body of the two inner loops for the cell (x, y): the value written to
\* znew[x,y], read from the array zz
RelaxAll(bb, zz, x, y) ==
  LET lx == SizeX(bb)
      ly == SizeY(bb)
      ncount == (IF x > 0 THEN 1 ELSE 0) + (IF x < lx - 1 THEN 1 ELSE 0)
              + (IF y > 0 THEN 1 ELSE 0) + (IF y < ly - 1 THEN 1 ELSE 0)
      pot == (IF x > 0 THEN zz[<<x - 1, y>>] ELSE 0)
           + (IF x < lx - 1 THEN zz[<<x + 1, y>>] ELSE 0)
           + (IF y > 0 THEN zz[<<x, y - 1>>] ELSE 0)
           + (IF y < ly - 1 THEN zz[<<x, y + 1>>] ELSE 0)
  IN pot \div ncount
Relax(bb, zz, x, y) ==
  LET lx == SizeX(bb)
      ly == SizeY(bb)
      ncount == (IF x > 0 THEN 1 ELSE 0) + (IF x < lx - 1 THEN 1 ELSE 0)
              + (IF y > 0 THEN 1 ELSE 0) + (IF y < ly - 1 THEN 1 ELSE 0)
      pot == (IF x > 0 THEN zz[<<x - 1, y>>] ELSE 0)
           + (IF x < lx - 1 THEN zz[<<x + 1, y>>] ELSE 0)
           + (IF y > 0 THEN zz[<<x, y - 1>>] ELSE 0)
           + (IF y < ly - 1 THEN zz[<<x, y + 1>>] ELSE 0)
  IN IF isnan(bb[<<x, y>>]) THEN pot \div ncount ELSE zz[<<x, y>>]

\* one full sweep n: every cell of znew is written from z, then the names
\* are swapped, so the new z is the array of the values written
Sweep(bb, zz) == [p \in DOMAIN bb |-> Relax(bb, zz, p[1], p[2])]

\* the arguments of the stand-alone calls
NumFixed(bb) == Cardinality({p \in DOMAIN bb : ~isnan(bb[p])})
SolveInputs ==
  {bb \in [Grid(SolveLx, SolveLy) -> {NaN, 0, One}] : NumFixed(bb) <= MaxFixed}

InitP ==
  /\ sp_b \in SolveInputs
  /\ sp_nrep \in 0 .. nrep
  /\ sp_buf = <<>>
  /\ sp_z = 0
  /\ sp_znew = 0
  /\ sp_n = 0
  /\ sp_ix = 0
  /\ sp_iy = 0
  /\ sp_pc = "start"
  /\ sp_ret = <<>>
  /\ sp_hist = <<>>
  /\ IdleL
  /\ IdleM

\* lines 65-71 and the entry of the loop over n
sp_Start ==
  /\ sp_pc = "start"
  /\ LET zref == 1
         nref == CopyRef(zref)
         bufz == zref :> ZeroNaN(sp_b)
     IN /\ sp_buf' = (nref :> bufz[zref]) @@ bufz
        /\ sp_z' = zref
        /\ sp_znew' = nref
        /\ sp_hist' = <<ZeroNaN(sp_b)>>
  /\ sp_n' = 0
  /\ sp_ix' = 0
  /\ sp_iy' = 0
  /\ sp_pc' = IF sp_nrep > 0 THEN "cell" ELSE "done"
  /\ sp_ret' = IF sp_nrep > 0 THEN sp_ret ELSE ZeroNaN(sp_b)
  /\ UNCHANGED <<sp_b, sp_nrep>>
  /\ UNCHANGED <<varsL, varsM>>

\* one pass of the body of the loops over ix and iy
sp_Cell ==
  /\ sp_pc = "cell"
  /\ sp_buf' = [sp_buf EXCEPT ![sp_znew][<<sp_ix, sp_iy>>] =
                   Relax(sp_b, sp_buf[sp_z], sp_ix, sp_iy)]
  /\ IF sp_iy < SizeY(sp_b) - 1
       THEN /\ sp_iy' = sp_iy + 1
            /\ UNCHANGED <<sp_ix, sp_pc>>
       ELSE /\ sp_iy' = 0
            /\ IF sp_ix < SizeX(sp_b) - 1
                 THEN sp_ix' = sp_ix + 1 /\ UNCHANGED sp_pc
                 ELSE sp_ix' = 0 /\ sp_pc' = "swap"
  /\ UNCHANGED <<sp_b, sp_nrep, sp_z, sp_znew, sp_n, sp_ret, sp_hist>>
  /\ UNCHANGED <<varsL, varsM>>

\* lines 95-97, then the next n or the return
sp_Swap ==
  /\ sp_pc = "swap"
  /\ LET tmp_z == sp_znew
     IN /\ sp_znew' = sp_z
        /\ sp_z' = tmp_z
        /\ sp_hist' = Append(sp_hist, sp_buf[tmp_z])
        /\ sp_ret' = IF sp_n + 1 < sp_nrep THEN sp_ret ELSE sp_buf[tmp_z]
  /\ sp_n' = sp_n + 1
  /\ sp_pc' = IF sp_n + 1 < sp_nrep THEN "cell" ELSE "done"
  /\ UNCHANGED <<sp_b, sp_nrep, sp_buf, sp_ix, sp_iy>>
  /\ UNCHANGED <<varsL, varsM>>

NextP == sp_Start \/ sp_Cell \/ sp_Swap

SpecPoisson == InitP /\ [][NextP]_vars

(***************************************************************************)
(* The lightning growth loop                                               *)
(***************************************************************************)
\* the in-grid 4-neighbours of a cell of an array
Neighbours(a, p) ==
  {q \in DOMAIN a : \/ q[1] = p[1] /\ (q[2] = p[2] - 1 \/ q[2] = p[2] + 1)
                    \/ q[2] = p[2] /\ (q[1] = p[1] - 1 \/ q[1] = p[1] + 1)}

\* s**eta with eta = 1.0
PowEta(v) == v

\* the values np.random.uniform(0,1) can return are in [0, 1): r stands for
\* r/(RMax+1)
RVals == 0 .. RMax

\* sprob = s**eta * uniform * isnan(zeroneighbor), in units of 1/(One*(RMax+1))
SprobBlind(ss, rand, zn) ==
  [p \in DOMAIN ss |-> rand[p] * (IF isnan(zn[p]) THEN 1 ELSE 0)]
Sprob(ss, rand, zn) ==
  [p \in DOMAIN ss |-> PowEta(ss[p]) * rand[p] * (IF isnan(zn[p]) THEN 1 ELSE 0)]

\* the position of the cell p in a.flatten() (row-major) of an array with
\* ly columns
Flat(ly, p) == p[1] * ly + p[2]

\* np.unravel_index(np.argmax(a, axis=None), a.shape): the cell that holds
\* the maximum, the first one in flattened order if several do
Argmax(a) ==
  CHOOSE p \in DOMAIN a :
    \E ly \in {SizeY(a)} :
      \A q \in DOMAIN a :
        a[q] < a[p] \/ (a[q] = a[p] /\ Flat(ly, p) <= Flat(ly, q))

\* lines 178-185
MarkAndClear(zn, p) ==
  [q \in DOMAIN zn |-> IF q \in Neighbours(zn, p) THEN NaN
                       ELSE IF q = p THEN 0 ELSE zn[q]]
MarkNeighbours(zn, p) ==
  [q \in DOMAIN zn |-> IF q \in Neighbours(zn, p) THEN NaN ELSE zn[q]]

\* line 175: the potential where the lightning is becomes 0
StrikeNone(bb, p) == bb
Strike(bb, p) == [bb EXCEPT ![p] = 0]

\* line 188: c[ix,iy] = ns, with the ns of line 187
RecordBefore(cc, p, n) == [cc EXCEPT ![p] = n - 1]
Record(cc, p, n) == [cc EXCEPT ![p] = n]

\* lines 189-190
NewYminKeep(y, ym) == ym
NewYmin(y, ym) == IF y < ym THEN y ELSE ym

\* lines 114-126 and 149-160
InitL ==
  /\ b = [p \in Grid(Lx, Ly) |-> IF p[2] = 0 THEN One
                                 ELSE IF p[2] = Ly - 1 THEN 0 ELSE NaN]
  /\ c = [p \in Grid(Lx, Ly) |-> 0]
  /\ zeroneighbor = [p \in Grid(Lx, Ly) |-> IF p[2] = Ly - 2 THEN NaN ELSE 0]
  /\ ymin = Ly - 1
  /\ ns = 0
  /\ s = <<>>
  /\ ix = 0
  /\ iy = 0
  /\ lpc = "while"
  /\ sol_z = <<>>
  /\ sol_n = 0
  /\ path = <<>>
  /\ IdleP
  /\ IdleM

\* the loop test and the entry of solvepoisson(b, nrep), lines 161-163 and
\* 65-71
L_Call ==
  /\ lpc = "while"
  /\ ymin > 0
  /\ sol_z' = ZeroNaN(b)
  /\ sol_n' = 0
  /\ lpc' = "sweep"
  /\ UNCHANGED <<b, zeroneighbor, c, s, ymin, ns, ix, iy, path>>
  /\ UNCHANGED <<varsP, varsM>>

\* one sweep n of the call, lines 73-97
L_Sweep ==
  /\ lpc = "sweep"
  /\ sol_n < nrep
  /\ sol_z' = Sweep(b, sol_z)
  /\ sol_n' = sol_n + 1
  /\ UNCHANGED <<b, zeroneighbor, c, s, ymin, ns, ix, iy, lpc, path>>
  /\ UNCHANGED <<varsP, varsM>>

\* the return of the call, line 98, and the assignment to s, line 163
L_Return ==
  /\ lpc = "sweep"
  /\ sol_n >= nrep
  /\ s' = sol_z
  /\ lpc' = "choose"
  /\ UNCHANGED <<b, zeroneighbor, c, ymin, ns, ix, iy, path, sol_z, sol_n>>
  /\ UNCHANGED <<varsP, varsM>>

\* the rest of the iteration, lines 166-190
L_Choose ==
  /\ lpc = "choose"
  /\ \E live \in {{p \in DOMAIN s : isnan(zeroneighbor[p]) /\ PowEta(s[p]) # 0}} :
     \E r \in [live -> RVals] :
     \* the random factor of a cell changes sprob only where the two other
     \* factors are not 0
     \E ch \in {Argmax(Sprob(s, [p \in DOMAIN s |-> IF p \in live THEN r[p]
                                                     ELSE RMax],
                             zeroneighbor))} :
       /\ ix' = ch[1]
       /\ iy' = ch[2]
       /\ b' = Strike(b, ch)
       /\ zeroneighbor' = MarkNeighbours(zeroneighbor, ch)
       /\ ns' = ns + 1
       /\ c' = Record(c, ch, ns + 1)
       /\ ymin' = NewYmin(ch[2], ymin)
       /\ path' = Append(path, ch)
  /\ lpc' = "while"
  /\ UNCHANGED <<s, sol_z, sol_n>>
  /\ UNCHANGED <<varsP, varsM>>

NextL == L_Call \/ L_Sweep \/ L_Return \/ L_Choose

SpecLightning == InitL /\ [][NextL]_vars

\* the loop is sequential code: a step that can run does run
SpecLightningFair == SpecLightning /\ WF_vars(NextL)

(***************************************************************************)
(* Molecular dynamics: numbers                                             *)
(* A float x is the integer x*Scale, and every multiplication, division    *)
(* and square root rounds its result toward zero to a multiple of 1/Scale. *)
(* Lengths are in units of half a bond length, masses in atomic mass       *)
(* units, charges in units of the partial charge.                          *)
(***************************************************************************)
Scale == 10 ^ 3

\* a/b rounded toward zero
Quot(x, y) ==
  IF (x >= 0) = (y > 0)
    THEN (IF x >= 0 THEN x ELSE -x) \div (IF y > 0 THEN y ELSE -y)
    ELSE -((IF x >= 0 THEN x ELSE -x) \div (IF y > 0 THEN y ELSE -y))

FMul(x, y) == Quot(x * y, Scale)
FDiv(x, y) == Quot(x * Scale, y)

\* the largest r in lo .. hi-1 with r*r <= n, given lo*lo <= n < hi*hi
RECURSIVE SqrtBetween(_, _, _)
SqrtBetween(n, lo, hi) ==
  IF hi - lo <= 1 THEN lo
  ELSE CHOOSE r \in {IF mid * mid <= n THEN SqrtBetween(n, mid, hi)
                                       ELSE SqrtBetween(n, lo, mid) :
                     mid \in {(lo + hi) \div 2}} : TRUE
FSqrt(x) == SqrtBetween(x * Scale, 0, 46341)

\* vectors of dims = 2 components
VAdd(u, v) == <<u[1] + v[1], u[2] + v[2]>>
VSub(u, v) == <<u[1] - v[1], u[2] - v[2]>>
VNeg(u) == <<-u[1], -u[2]>>
VMulS(u, k) == <<FMul(u[1], k), FMul(u[2], k)>>
VDivS(u, k) == <<FDiv(u[1], k), FDiv(u[2], k)>>
\* np.linalg.norm
Norm(u) == FSqrt(FMul(u[1], u[1]) + FMul(u[2], u[2]))
\* np.sum(f, axis=0) of the first k vectors of a sequence
RECURSIVE VSum(_, _)
VSum(f, k) == IF k = 0 THEN <<0, 0>> ELSE VAdd(VSum(f, k - 1), f[k])

(***************************************************************************)
(* Molecular dynamics: parameters                                          *)
(***************************************************************************)
grid_dims == <<GridX, GridY>>
num_molecules == GridX * GridY
dt == 10
partial_charge == 1000
charge_H == partial_charge
charge_Cl == -partial_charge
mass_H == 1008
mass_Cl == 35453
bond_length == 2000
side_lengths == <<2 * grid_dims[1] * bond_length, 2 * grid_dims[2] * bond_length>>
k_spring == 481000
k_e == 1000000

Molecules == 0 .. num_molecules - 1
ZeroVec == <<0, 0>>
\* np.zeros((n, num_molecules, dims))
Zeros(n) == [r \in 0 .. n - 1 |-> [m \in Molecules |-> ZeroVec]]

\* the values np.random.normal returns for one molecule
Draws == {<<3 * Scale, 4 * Scale>>, <<-4 * Scale, 3 * Scale>>, <<0, -2 * Scale>>}

(***************************************************************************)
(* make_liquid                                                             *)
(***************************************************************************)
\* np.linspace(start, stop, num)[k]
linspace(start, stop, num, k) ==
  IF num = 1 THEN start
  ELSE IF k = num - 1 THEN stop
  ELSE FMul(k * Scale, FDiv(stop - start, (num - 1) * Scale)) + start

\* draw is the array np.random.normal returns; the result is the pair
\* <<hydrogen, chlorine>>
make_liquid_far(nm, dims, bl, gd, sl, draw) ==
  LET pos == [m \in 0 .. nm - 1 |-> VMulS(VDivS(draw[m], Norm(draw[m])), bl)]
      xx == [k \in 0 .. gd[1] - 1 |-> linspace(-FDiv(sl[1], 2 * Scale), FDiv(sl[1], 2 * Scale), gd[1], k)]
      yy == [k \in 0 .. gd[2] - 1 |-> linspace(-FDiv(sl[2], 2 * Scale), FDiv(sl[2], 2 * Scale), gd[2], k)]
      molecule == [m \in 0 .. nm - 1 |-> <<xx[m % gd[1]], yy[m \div gd[1]]>>]
  IN <<[m \in 0 .. nm - 1 |-> VSub(molecule[m], pos[m])],
       [m \in 0 .. nm - 1 |-> VAdd(molecule[m], pos[m])]>>
make_liquid(nm, dims, bl, gd, sl, draw) ==
  LET pos == [m \in 0 .. nm - 1 |-> VMulS(VDivS(draw[m], Norm(draw[m])), bl)]
      xx == [k \in 0 .. gd[1] - 1 |-> linspace(-FDiv(sl[1], 2 * Scale), FDiv(sl[1], 2 * Scale), gd[1], k)]
      yy == [k \in 0 .. gd[2] - 1 |-> linspace(-FDiv(sl[2], 2 * Scale), FDiv(sl[2], 2 * Scale), gd[2], k)]
      molecule == [m \in 0 .. nm - 1 |-> <<xx[m % gd[1]], yy[m \div gd[1]]>>]
  IN <<[m \in 0 .. nm - 1 |-> VSub(molecule[m], VDivS(pos[m], 2 * Scale))],
       [m \in 0 .. nm - 1 |-> VAdd(molecule[m], VDivS(pos[m], 2 * Scale))]>>

(***************************************************************************)
(* Forces                                                                  *)
(***************************************************************************)
\* lines 250-260: the pair <<spring_acc_H[t,i], spring_acc_Cl[t,i]>> of a
\* molecule with the hydrogen at pH and the chlorine at pCl
SpringAccRepel(pH, pCl) ==
  LET spring_difference == VSub(pCl, pH)
      spring_distance == Norm(spring_difference)
      spring_unitvector == VDivS(spring_difference, spring_distance)
      spring_force == FMul(k_spring, spring_distance - bond_length)
  IN <<VDivS(VMulS(VNeg(spring_unitvector), spring_force), mass_H),
       VDivS(VMulS(spring_unitvector, spring_force), mass_Cl)>>
SpringAcc(pH, pCl) ==
  LET spring_difference == VSub(pCl, pH)
      spring_distance == Norm(spring_difference)
      spring_unitvector == VDivS(spring_difference, spring_distance)
      spring_force == FMul(k_spring, spring_distance - bond_length)
  IN <<VDivS(VMulS(spring_unitvector, spring_force), mass_H),
       VDivS(VMulS(VNeg(spring_unitvector), spring_force), mass_Cl)>>

\* line 265: the indices np.arange(0, num_molecules) != m selects, in order
coulomb_mask_later(m) ==
  SelectSeq([k \in 1 .. num_molecules |-> k - 1], LAMBDA j : j > m)
coulomb_mask(m) ==
  SelectSeq([k \in 1 .. num_molecules |-> k - 1], LAMBDA j : j # m)

\* lines 268-294 for one pair: the force on the atom at pA with the charge
\* qA from the atom at pB with the charge qB
coulomb_force_inward(pA, qA, pB, qB) ==
  LET coulomb_difference == VSub(pB, pA)
      coulomb_distance == Norm(coulomb_difference)
      coulomb_unitvector == VDivS(coulomb_difference, coulomb_distance)
  IN VDivS(VMulS(coulomb_unitvector, FMul(FMul(k_e, qA), qB)),
           FMul(coulomb_distance, coulomb_distance))
coulomb_force(pA, qA, pB, qB) ==
  LET coulomb_difference == VSub(pA, pB)
      coulomb_distance == Norm(coulomb_difference)
      coulomb_unitvector == VDivS(coulomb_difference, coulomb_distance)
  IN VDivS(VMulS(coulomb_unitvector, FMul(FMul(k_e, qA), qB)),
           FMul(coulomb_distance, coulomb_distance))

\* the arrays coulomb_force_X_H and coulomb_force_X_Cl of the atom at pA
ForcesFrom(pA, qA, others, qB, mask) ==
  [k \in 1 .. Len(mask) |-> coulomb_force(pA, qA, others[mask[k]], qB)]

\* lines 297-300: the pair <<coulomb_acc_H[t,m], coulomb_acc_Cl[t,m]>> from
\* the rows rH = position_H[t] and rCl = position_Cl[t]
CoulombAcc(rH, rCl, m) ==
  LET mask == coulomb_mask(m)
      coulomb_force_H_H == ForcesFrom(rH[m], charge_H, rH, charge_H, mask)
      coulomb_force_H_Cl == ForcesFrom(rH[m], charge_H, rCl, charge_Cl, mask)
      coulomb_force_Cl_H == ForcesFrom(rCl[m], charge_Cl, rH, charge_H, mask)
      coulomb_force_Cl_Cl == ForcesFrom(rCl[m], charge_Cl, rCl, charge_Cl, mask)
  IN <<VDivS(VAdd(VSum(coulomb_force_H_H, Len(mask)),
                  VSum(coulomb_force_H_Cl, Len(mask))), mass_H),
       VDivS(VAdd(VSum(coulomb_force_Cl_H, Len(mask)),
                  VSum(coulomb_force_Cl_Cl, Len(mask))), mass_Cl)>>

\* the number of vectors summed for one atom: the rows of its two force
\* arrays
NumTerms(m) == Len(coulomb_mask(m)) + Len(coulomb_mask(m))

(***************************************************************************)
(* The integration loop                                                    *)
(***************************************************************************)
Arrays == {"position_H", "position_Cl", "velocity_H", "velocity_Cl",
           "acceleration_H", "acceleration_Cl", "coulomb_acc_H",
           "coulomb_acc_Cl", "spring_acc_H", "spring_acc_Cl"}

\* the history of writes after iteration it wrote (to) the row r of the
\* arrays as
Wrote(w, as, r, it) ==
  [a \in Arrays |-> IF a \in as THEN Append(w[a], <<r, it>>) ELSE w[a]]

\* lines 250 and 268-274: the row of the position arrays the forces of the
\* iteration tt are computed from
ForceRowStale(tt) == IF tt > 0 THEN tt - 1 ELSE tt
ForceRow(tt) == tt

\* line 244: range(timesteps-1) has a value after tt
HasNextUpTo(tt, ts) == tt + 1 < ts
HasNext(tt, ts) == tt + 1 < ts - 1

\* lines 308-309: the row t+1 of a velocity array
NextVelocity(vel, acc, tt) ==
  [m \in Molecules |-> VAdd(vel[tt][m], VMulS(acc[tt][m], dt))]
\* lines 310-311: the row t+1 of a position array; vel holds row t+1 already
NextPositionEuler(pos, vel, tt) ==
  [m \in Molecules |-> VAdd(pos[tt][m], VMulS(vel[tt][m], dt))]
NextPosition(pos, vel, tt) ==
  [m \in Molecules |-> VAdd(pos[tt][m], VMulS(vel[tt + 1][m], dt))]

\* int(timesteps/20)
StrideTenth(ts) == ts \div 10
Stride(ts) == ts \div 20

\* lines 72-76, 136-155 and 171-186
InitM ==
  /\ timesteps = Timesteps
  /\ \E draw \in [Molecules -> Draws] :
     \E hc \in {make_liquid(num_molecules, 2, bond_length, grid_dims,
                            side_lengths, draw)} :
       /\ position_H = [Zeros(timesteps) EXCEPT ![0] = hc[1]]
       /\ position_Cl = [Zeros(timesteps) EXCEPT ![0] = hc[2]]
  /\ velocity_H = Zeros(timesteps)
  /\ velocity_Cl = Zeros(timesteps)
  /\ acceleration_H = Zeros(timesteps)
  /\ acceleration_Cl = Zeros(timesteps)
  /\ coulomb_acc_H = Zeros(timesteps)
  /\ coulomb_acc_Cl = Zeros(timesteps)
  /\ spring_acc_H = Zeros(timesteps)
  /\ spring_acc_Cl = Zeros(timesteps)
  /\ t = -1
  /\ i = 0
  /\ mpc = "for"
  /\ printed = <<>>
  /\ iters = <<>>
  /\ writes = [a \in Arrays |-> <<>>]
  /\ nterms = 0
  /\ IdleP
  /\ IdleL

\* line 244: the next t of range(timesteps-1), or the end of the loop and
\* lines 315-317
M_For ==
  /\ mpc = "for"
  /\ IF HasNext(t, timesteps)
       THEN /\ t' = t + 1
            /\ i' = 0
            /\ mpc' = "spring"
            /\ iters' = Append(iters, t + 1)
            /\ UNCHANGED printed
       ELSE /\ mpc' = "done"
            /\ printed' = Append(printed, [line |-> "summary",
                                           n |-> num_molecules,
                                           of |-> timesteps])
            /\ UNCHANGED <<t, i, iters>>
  /\ UNCHANGED <<timesteps, position_H, position_Cl, velocity_H, velocity_Cl,
                 acceleration_H, acceleration_Cl, coulomb_acc_H,
                 coulomb_acc_Cl, spring_acc_H, spring_acc_Cl, writes, nterms>>
  /\ UNCHANGED <<varsP, varsL>>

\* lines 249-260 for one i
M_Spring ==
  /\ mpc = "spring"
  /\ \E acc \in {SpringAcc(position_H[ForceRow(t)][i],
                             position_Cl[ForceRow(t)][i])} :
       /\ spring_acc_H' = [spring_acc_H EXCEPT ![t][i] = acc[1]]
       /\ spring_acc_Cl' = [spring_acc_Cl EXCEPT ![t][i] = acc[2]]
  /\ writes' = Wrote(writes, {"spring_acc_H", "spring_acc_Cl"}, t, t)
  /\ IF i + 1 < num_molecules
       THEN i' = i + 1 /\ UNCHANGED mpc
       ELSE i' = 0 /\ mpc' = "coulomb"
  /\ UNCHANGED <<timesteps, position_H, position_Cl, velocity_H, velocity_Cl,
                 acceleration_H, acceleration_Cl, coulomb_acc_H,
                 coulomb_acc_Cl, t, printed, iters, nterms>>
  /\ UNCHANGED <<varsP, varsL>>

\* lines 264-300 for one i
M_Coulomb ==
  /\ mpc = "coulomb"
  /\ \E acc \in {CoulombAcc(position_H[ForceRow(t)],
                              position_Cl[ForceRow(t)], i)} :
       /\ coulomb_acc_H' = [coulomb_acc_H EXCEPT ![t][i] = acc[1]]
       /\ coulomb_acc_Cl' = [coulomb_acc_Cl EXCEPT ![t][i] = acc[2]]
  /\ nterms' = NumTerms(i)
  /\ writes' = Wrote(writes, {"coulomb_acc_H", "coulomb_acc_Cl"}, t, t)
  /\ IF i + 1 < num_molecules
       THEN i' = i + 1 /\ UNCHANGED mpc
       ELSE i' = 0 /\ mpc' = "integrate"
  /\ UNCHANGED <<timesteps, position_H, position_Cl, velocity_H, velocity_Cl,
                 acceleration_H, acceleration_Cl, spring_acc_H, spring_acc_Cl,
                 t, printed, iters>>
  /\ UNCHANGED <<varsP, varsL>>

\* lines 304-314
M_Integrate ==
  /\ mpc = "integrate"
  /\ acceleration_H' = [acceleration_H EXCEPT ![t] =
        [m \in Molecules |-> VAdd(coulomb_acc_H[t][m], spring_acc_H[t][m])]]
  /\ acceleration_Cl' = [acceleration_Cl EXCEPT ![t] =
        [m \in Molecules |-> VAdd(coulomb_acc_Cl[t][m], spring_acc_Cl[t][m])]]
  /\ velocity_H' = [velocity_H EXCEPT ![t + 1] =
        NextVelocity(velocity_H, acceleration_H', t)]
  /\ velocity_Cl' = [velocity_Cl EXCEPT ![t + 1] =
        NextVelocity(velocity_Cl, acceleration_Cl', t)]
  /\ position_H' = [position_H EXCEPT ![t + 1] =
        NextPosition(position_H, velocity_H', t)]
  /\ position_Cl' = [position_Cl EXCEPT ![t + 1] =
        NextPosition(position_Cl, velocity_Cl', t)]
  /\ writes' = Wrote(Wrote(writes, {"acceleration_H", "acceleration_Cl"}, t, t),
                     {"velocity_H", "velocity_Cl", "position_H", "position_Cl"},
                     t + 1, t)
  /\ IF t # 0 /\ Stride(timesteps) = 0
       THEN \* t % 0 raises ZeroDivisionError
            mpc' = "error" /\ UNCHANGED printed
       ELSE /\ mpc' = "for"
            /\ printed' = IF t # 0 /\ t % Stride(timesteps) = 0
                            THEN Append(printed, [line |-> "progress",
                                                  n |-> t, of |-> timesteps])
                            ELSE printed
  /\ UNCHANGED <<timesteps, coulomb_acc_H, coulomb_acc_Cl, spring_acc_H,
                 spring_acc_Cl, t, i, iters, nterms>>
  /\ UNCHANGED <<varsP, varsL>>

NextM == M_For \/ M_Spring \/ M_Coulomb \/ M_Integrate

SpecMD == InitM /\ [][NextM]_vars

\* the notebook with line 75 edited: timesteps is a parameter of the run; the
\* molecules all draw the same direction
InitMSteps ==
  /\ timesteps \in 2 .. MaxSteps
  /\ \E d \in Draws :
     \E hc \in {make_liquid(num_molecules, 2, bond_length, grid_dims,
                            side_lengths, [m \in Molecules |-> d])} :
       /\ position_H = [Zeros(timesteps) EXCEPT ![0] = hc[1]]
       /\ position_Cl = [Zeros(timesteps) EXCEPT ![0] = hc[2]]
  /\ velocity_H = Zeros(timesteps)
  /\ velocity_Cl = Zeros(timesteps)
  /\ acceleration_H = Zeros(timesteps)
  /\ acceleration_Cl = Zeros(timesteps)
  /\ coulomb_acc_H = Zeros(timesteps)
  /\ coulomb_acc_Cl = Zeros(timesteps)
  /\ spring_acc_H = Zeros(timesteps)
  /\ spring_acc_Cl = Zeros(timesteps)
  /\ t = -1
  /\ i = 0
  /\ mpc = "for"
  /\ printed = <<>>
  /\ iters = <<>>
  /\ writes = [a \in Arrays |-> <<>>]
  /\ nterms = 0
  /\ IdleP
  /\ IdleL

SpecMDSteps == InitMSteps /\ [][NextM]_vars

(***************************************************************************)
(* Properties of solvepoisson                                              *)
(***************************************************************************)
RECURSIVE SumOver(_, _)
SumOver(a, S) ==
  IF S = {} THEN 0
  ELSE LET q == CHOOSE q \in S : TRUE IN a[q] + SumOver(a, S \ {q})

\* cur[p] is the arithmetic mean of the values prev has at the in-grid
\* 4-neighbours of p, of which there are 2, 3 or 4
IsMean(prev, cur, p) ==
  LET nb == Neighbours(prev, p)
  IN /\ Cardinality(nb) \in {2, 3, 4}
     /\ cur[p] * Cardinality(nb) = SumOver(prev, nb)

\* C1: solvepoisson is a Jacobi relaxation. The values before sweep 1 are b
\* with every NaN replaced by 0; for every sweep n in 1..nrep and every free
\* cell the value after sweep n is the mean of the values its in-grid
\* neighbours had after sweep n-1; the array read during a sweep is not the
\* array written and still holds the values of sweep n-1 (the cell-by-cell
\* pass gives the array Sweep gives); the array returned is the one of
\* sweep nrep.
C1_Jacobi ==
  /\ sp_hist # <<>> =>
        sp_hist[1] = [p \in DOMAIN sp_b |-> IF sp_b[p] = NaN THEN 0 ELSE sp_b[p]]
  /\ \A k \in 2 .. Len(sp_hist) :
        \A p \in DOMAIN sp_b :
          isnan(sp_b[p]) => IsMean(sp_hist[k - 1], sp_hist[k], p)
  /\ \A k \in 2 .. Len(sp_hist) : sp_hist[k] = Sweep(sp_b, sp_hist[k - 1])
  /\ sp_pc \in {"cell", "swap"} =>
        /\ sp_z # sp_znew
        /\ sp_buf[sp_z] = sp_hist[Len(sp_hist)]
        /\ Len(sp_hist) = sp_n + 1
  /\ sp_pc = "done" =>
        /\ Len(sp_hist) = sp_nrep + 1
        /\ sp_ret = sp_hist[sp_nrep + 1]

\* a call of at least two sweeps has returned, the grid has free cells with
\* 2, 3 and 4 neighbours, and a free cell holds a value strictly between
\* 0 and 1
C1_Witness ==
  /\ sp_pc = "done"
  /\ sp_nrep >= 2
  /\ \A k \in {2, 3, 4} :
        \E p \in DOMAIN sp_b :
          isnan(sp_b[p]) /\ Cardinality(Neighbours(sp_b, p)) = k
  /\ \E p \in DOMAIN sp_b :
        isnan(sp_b[p]) /\ sp_ret[p] > 0 /\ sp_ret[p] < One

\* C2: at every cell where b is defined, the array z holds exactly the value
\* of b after every sweep, whichever of the two arrays it is, and so does
\* the array the call returns.
C2_BoundaryKept ==
  /\ \A k \in 1 .. Len(sp_hist) :
        \A p \in DOMAIN sp_b : ~isnan(sp_b[p]) => sp_hist[k][p] = sp_b[p]
  /\ sp_pc = "done" =>
        \A p \in DOMAIN sp_b : ~isnan(sp_b[p]) => sp_ret[p] = sp_b[p]

\* a call of an odd number of sweeps (it returns the second array) has
\* returned, b holds a 0 and a 1, and the relaxation changed a free
\* neighbour of a specified cell
C2_Witness ==
  /\ sp_pc = "done"
  /\ sp_nrep = 3
  /\ sp_z = 2
  /\ \E p \in DOMAIN sp_b : sp_b[p] = 0
  /\ \E p \in DOMAIN sp_b :
        /\ sp_b[p] = One
        /\ \E q \in Neighbours(sp_b, p) : isnan(sp_b[q]) /\ sp_ret[q] > 0

(***************************************************************************)
(* Properties of the lightning growth loop                                 *)
(***************************************************************************)
\* C3: in every iteration the cell selected by argmax is a cell whose
\* zeroneighbor entry is NaN at that moment.
C3_OnlyCandidates ==
  [][lpc = "choose" => isnan(zeroneighbor[<<ix', iy'>>])]_vars

\* the loop has ended: the test ymin > 0 failed
LoopEnded == lpc = "while" /\ ymin <= 0

\* C4: the growth loop terminates for every sequence of random draws, and
\* it ends exactly at the first iteration in which a cell of the cloud row
\* (iy = 0) is chosen: no iteration before the last chose a cloud cell, and
\* the loop has ended if and only if the last iteration chose one.
C4_Terminates ==
  /\ <>LoopEnded
  /\ [](/\ \A k \in 1 .. Len(path) : path[k][2] = 0 => k = Len(path)
        /\ LoopEnded <=> (path # <<>> /\ path[Len(path)][2] = 0)
        /\ Len(path) = ns)

\* the loop has ended after the path grew from the row next to the ground
\* up to the cloud
C4_Witness ==
  /\ LoopEnded
  /\ \A y \in 0 .. Ly - 2 : \E k \in 1 .. Len(path) : path[k][2] = y

\* the iteration whose solve the array s comes from
SolveIter == IF lpc = "choose" THEN ns + 1 ELSE ns

\* C5: once a cell has been chosen its entry in b is 0 and stays 0, so it is
\* a fixed cell of every later solve, and its potential s is exactly 0 in
\* every later iteration.
C5_ChosenStaysZero ==
  \A k \in 1 .. Len(path) :
    /\ b[path[k]] = 0
    /\ k < SolveIter => s[path[k]] = 0

\* a later solve has run with at least two chosen cells, one of which has a
\* neighbour at a positive potential
C5_Witness ==
  /\ lpc = "choose"
  /\ ns >= 2
  /\ \E k \in 1 .. Len(path) :
        \E q \in Neighbours(s, path[k]) : s[q] > 0 /\ isnan(b[q])


\* the cells chosen so far
Chosen == {path[k] : k \in 1 .. Len(path)}
\* the cells whose zeroneighbor entry is NaN
Candidates(zn) == {p \in DOMAIN zn : isnan(zn[p])}

\* C11: the cells whose zeroneighbor entry is NaN are exactly the row
\* iy = Ly-2 together with every in-grid 4-neighbour of every cell chosen so
\* far, at the start of every iteration and in between; the set never
\* shrinks: a candidate stays a candidate, also after it is chosen.
C11_CandidateSet ==
  /\ [](Candidates(zeroneighbor) =
          {p \in DOMAIN zeroneighbor : p[2] = Ly - 2} \cup
          UNION {Neighbours(zeroneighbor, q) : q \in Chosen})
  /\ [][Candidates(zeroneighbor) \subseteq Candidates(zeroneighbor')]_vars

\* an iteration starts after two cells were chosen; a chosen cell is still a
\* candidate and there is a candidate outside the row next to the ground
C11_Witness ==
  /\ lpc = "while"
  /\ ns >= 2
  /\ \E q \in Chosen : isnan(zeroneighbor[q])
  /\ \E p \in Candidates(zeroneighbor) : p[2] < Ly - 2

\* the cell p is 4-adjacent to the cell q
Adjacent(p, q) ==
  \/ p[1] = q[1] /\ (p[2] = q[2] + 1 \/ q[2] = p[2] + 1)
  \/ p[2] = q[2] /\ (p[1] = q[1] + 1 \/ q[1] = p[1] + 1)

\* C12: the path is connected to the ground: the first chosen cell lies in
\* the row next to the ground (iy = Ly-2), and every later chosen cell lies in
\* that row or is 4-adjacent to a cell chosen in an earlier iteration.
C12_Connected ==
  /\ path # <<>> => path[1][2] = Ly - 2
  /\ \A k \in 2 .. Len(path) :
       \/ path[k][2] = Ly - 2
       \/ \E j \in 1 .. k - 1 : Adjacent(path[k], path[j])

\* the smallest number of a non-empty set of numbers
Min(S) == CHOOSE x \in S : \A y \in S : x <= y

\* C13: ymin tracks the highest point reached: it starts at Ly-1, equals the
\* minimum of Ly-1 and the row indices iy of all cells chosen so far, never
\* increases, and decreases by at most 1 in a single iteration.
C13_Ymin ==
  /\ [](ymin = Min({Ly - 1} \cup {q[2] : q \in Chosen}))
  /\ [][ymin' <= ymin /\ ymin' >= ymin - 1]_vars

\* C14: the array c records the path in order: after k iterations ns = k,
\* the non-zero cells of c are exactly the cells chosen so far, the value of
\* c at the cell chosen in iteration j is j, and the non-zero values of c
\* are the distinct numbers 1..k.
C14_PathRecorded ==
  /\ ns = Len(path)
  /\ {p \in DOMAIN c : c[p] # 0} = Chosen
  /\ \A j \in 1 .. Len(path) : c[path[j]] = j
  /\ {c[p] : p \in {q \in DOMAIN c : c[q] # 0}} = 1 .. ns
  /\ Cardinality({p \in DOMAIN c : c[p] # 0}) = ns

\* the loop has ended after at least three iterations
C14_Witness ==
  /\ LoopEnded
  /\ ns >= 3
  /\ c[path[1]] = 1
  /\ c[path[ns]] = ns

\* C18: no cell is chosen twice, for every outcome of the random factors,
\* the all-zero sprob included: the cell of every iteration differs from the
\* cells of all earlier iterations, so at the end ns is the number of
\* distinct path cells.
C18_NoRepeat ==
  /\ \A j, k \in 1 .. Len(path) : j < k => path[j] # path[k]
  /\ LoopEnded => ns = Cardinality(Chosen)

\* the loop has ended through an iteration with an all-zero sprob: the last
\* cell is (0,0) although it was not a candidate, after chosen cells whose
\* potential was 0 in the solve
C18_Witness ==
  /\ LoopEnded
  /\ ns >= 3
  /\ path[ns] = <<0, 0>>
  /\ \A j \in 1 .. ns - 1 : ~Adjacent(path[j], <<0, 0>>)

(***************************************************************************)
(* Properties of the molecular-dynamics loop                               *)
(***************************************************************************)
\* the number of iterations that ran to their end
Completed == IF mpc \in {"for", "done", "error"} THEN t + 1 ELSE t
\* the spring (Coulomb) acceleration of the molecule m for the row r has
\* been computed
SpringDone(r, m) ==
  \/ r < Completed
  \/ r = t /\ mpc = "spring" /\ m < i
  \/ r = t /\ mpc \in {"coulomb", "integrate"}
CoulombDone(r, m) ==
  \/ r < Completed
  \/ r = t /\ mpc = "coulomb" /\ m < i
  \/ r = t /\ mpc = "integrate"

Dot(u, v) == u[1] * v[1] + u[2] * v[2]

\* one Euler-Cromer step of an atom
IsEulerCromer(pos, vel, acc, coul, spr, r, m) ==
  /\ acc[r][m] = VAdd(coul[r][m], spr[r][m])
  /\ vel[r + 1][m] = VAdd(vel[r][m], VMulS(acc[r][m], dt))
  /\ pos[r + 1][m] = VAdd(pos[r][m], VMulS(vel[r + 1][m], dt))

\* C6: the step is Euler-Cromer: for every step r that ran and every atom,
\* acceleration[r] = coulomb_acc[r] + spring_acc[r], velocity[r+1] =
\* velocity[r] + acceleration[r]*dt and position[r+1] = position[r] +
\* velocity[r+1]*dt, with the velocity of the row r+1.
C6_EulerCromer ==
  \A r \in 0 .. Completed - 1 :
    \A m \in Molecules :
      /\ IsEulerCromer(position_H, velocity_H, acceleration_H, coulomb_acc_H,
                       spring_acc_H, r, m)
      /\ IsEulerCromer(position_Cl, velocity_Cl, acceleration_Cl,
                       coulomb_acc_Cl, spring_acc_Cl, r, m)

\* two steps ran, and in the second the new velocity of an atom moves it
\* further than the old one would
C6_Witness ==
  /\ Completed >= 2
  /\ \E m \in Molecules :
       VMulS(velocity_H[2][m], dt) # VMulS(velocity_H[1][m], dt)

\* the sum of the vectors f(j) over the molecules j of a set
RECURSIVE VSumOver(_, _)
VSumOver(f(_), S) ==
  IF S = {} THEN ZeroVec
  ELSE LET j == CHOOSE j \in S : TRUE IN VAdd(f(j), VSumOver(f, S \ {j}))

\* the Coulomb acceleration of the atom at pA with the charge qA and the mass
\* mass, in the molecule m, from the rows rH and rCl: both atoms of every
\* other molecule contribute
CoulombFromOthers(pA, qA, mass, rH, rCl, m) ==
  LET fromH(j) == coulomb_force(pA, qA, rH[j], charge_H)
      fromCl(j) == coulomb_force(pA, qA, rCl[j], charge_Cl)
  IN VDivS(VAdd(VSumOver(fromH, Molecules \ {m}),
                VSumOver(fromCl, Molecules \ {m})), mass)

\* C7: the Coulomb acceleration of each atom of the molecule m is the sum of
\* the contributions of both atoms of every molecule j # m, 2*(N-1) terms,
\* with none from the other atom of m, divided by the atom's own mass.
C7_CoulombTerms ==
  /\ \A r \in 0 .. timesteps - 2 :
       \A m \in Molecules :
         CoulombDone(r, m) =>
           /\ coulomb_acc_H[r][m] =
                CoulombFromOthers(position_H[r][m], charge_H, mass_H,
                                  position_H[r], position_Cl[r], m)
           /\ coulomb_acc_Cl[r][m] =
                CoulombFromOthers(position_Cl[r][m], charge_Cl, mass_Cl,
                                  position_H[r], position_Cl[r], m)
  /\ (\E m \in Molecules : CoulombDone(0, m)) =>
       nterms = 2 * (num_molecules - 1)

\* the Coulomb pass of a later step is complete for at least three
\* molecules, and the accelerations of the two atoms of a molecule differ
C7_Witness ==
  /\ mpc = "integrate"
  /\ t >= 1
  /\ num_molecules >= 3
  /\ nterms = 2 * (num_molecules - 1)
  /\ coulomb_acc_H[t][1] # ZeroVec
  /\ coulomb_acc_Cl[t][1] # ZeroVec
  /\ coulomb_acc_H[t][1] # coulomb_acc_Cl[t][1]

\* Hooke's law for a molecule with the hydrogen at pH, the chlorine at pCl
\* and the accelerations aH and aCl
IsHooke(pH, pCl, aH, aCl) ==
  LET diff == VSub(pCl, pH)
      d == Norm(diff)
      unit == VDivS(diff, d)
      force == VMulS(unit, FMul(k_spring, d - bond_length))
  IN /\ aH = VDivS(force, mass_H)
     /\ aCl = VDivS(VNeg(force), mass_Cl)
     /\ d > bond_length => Dot(aH, diff) > 0 /\ Dot(aCl, diff) < 0
     /\ d < bond_length => Dot(aH, diff) < 0 /\ Dot(aCl, diff) > 0
     /\ d = bond_length => aH = ZeroVec /\ aCl = ZeroVec

\* C8: the bond force follows Hooke's law and is restoring: with d the H-Cl
\* distance and u the unit vector from H to Cl, the force on H is
\* k_spring*(d - bond_length)*u and the force on Cl its negation, each divided
\* by the atom's own mass; the atoms accelerate toward each other when
\* d > bond_length, apart when d < bond_length, and not at all when
\* d = bond_length.
C8_Hooke ==
  \A r \in 0 .. timesteps - 2 :
    \A m \in Molecules :
      SpringDone(r, m) =>
        IsHooke(position_H[r][m], position_Cl[r][m],
                spring_acc_H[r][m], spring_acc_Cl[r][m])

\* the spring pass has run for a stretched bond, for a compressed bond and
\* for a bond at its equilibrium length
C8_Witness ==
  /\ \E r \in 0 .. timesteps - 2 : \E m \in Molecules :
       /\ SpringDone(r, m)
       /\ Norm(VSub(position_Cl[r][m], position_H[r][m])) > bond_length
  /\ \E r \in 0 .. timesteps - 2 : \E m \in Molecules :
       /\ SpringDone(r, m)
       /\ Norm(VSub(position_Cl[r][m], position_H[r][m])) < bond_length
  /\ \E r \in 0 .. timesteps - 2 : \E m \in Molecules :
       /\ SpringDone(r, m)
       /\ Norm(VSub(position_Cl[r][m], position_H[r][m])) = bond_length

\* C9: the loop is fixed-length: it runs the iterations t = 0, 1, ...,
\* timesteps-2 in order and no other; iteration t writes the row t+1 of the
\* position and velocity arrays and the row t of the acceleration arrays and
\* no other row, so every row 1..timesteps-1 of position and velocity is
\* written exactly once, the row 0 is never written, and the rows not yet
\* written are still zero.
C9_FixedLength ==
  /\ \A j \in 1 .. Len(iters) : iters[j] = j - 1
  /\ Len(iters) <= timesteps - 1
  /\ mpc = "done" => Len(iters) = timesteps - 1 /\ Completed = timesteps - 1
  /\ \A a \in {"position_H", "position_Cl", "velocity_H", "velocity_Cl"} :
       /\ Len(writes[a]) = Completed
       /\ \A j \in 1 .. Len(writes[a]) :
            writes[a][j] = <<j, j - 1>> /\ j <= timesteps - 1
  /\ \A a \in Arrays \ {"position_H", "position_Cl", "velocity_H", "velocity_Cl"} :
       \A j \in 1 .. Len(writes[a]) :
         /\ writes[a][j][1] = writes[a][j][2]
         /\ writes[a][j][1] \in 0 .. timesteps - 2
         /\ j > 1 => writes[a][j - 1][1] <= writes[a][j][1]
  /\ \A r \in Completed + 1 .. timesteps - 1 :
       /\ position_H[r] = [m \in Molecules |-> ZeroVec]
       /\ velocity_H[r] = [m \in Molecules |-> ZeroVec]
       /\ position_Cl[r] = [m \in Molecules |-> ZeroVec]
       /\ velocity_Cl[r] = [m \in Molecules |-> ZeroVec]

\* the loop has ended after all its iterations and the last row is written
C9_Witness ==
  /\ mpc = "done"
  /\ Len(iters) = timesteps - 1
  /\ timesteps >= 3
  /\ velocity_H[timesteps - 1] # [m \in Molecules |-> ZeroVec]

\* the grid point of the molecule m: the points are equally spaced from
\* -side/2 to side/2 along each axis, x running first
GridCoord(k, num, side) ==
  IF num = 1 THEN -FDiv(side, 2 * Scale)
  ELSE IF k = num - 1 THEN FDiv(side, 2 * Scale)
  ELSE -FDiv(side, 2 * Scale) + FMul(k * Scale, FDiv(side, (num - 1) * Scale))
GridPoint(m) ==
  <<GridCoord(m % GridX, GridX, side_lengths[1]),
    GridCoord(m \div GridX, GridY, side_lengths[2])>>

Abs(x) == IF x < 0 THEN -x ELSE x

\* Coulomb's law for the term f added to the atom A (at pA, charge qA)
\* because of the atom B (at pB, charge qB)
IsCoulomb(pA, qA, pB, qB, f) ==
  LET away == VSub(pA, pB)
      d == Norm(away)
      unit == VDivS(away, d)
      magnitude == FMul(FMul(k_e, Abs(qA)), Abs(qB))
      repel == VDivS(VMulS(unit, magnitude), FMul(d, d))
  IN IF (qA > 0) = (qB > 0)
       THEN f = repel /\ Dot(f, unit) > 0
       ELSE f = VNeg(repel) /\ Dot(f, unit) < 0

\* the atoms of the molecule m in the row r, with their charges
Atoms(r, m) == {<<position_H[r][m], charge_H>>, <<position_Cl[r][m], charge_Cl>>}

\* C15: the Coulomb term added to the atom A because of the atom B of
\* another molecule has the magnitude k_e*|q_A*q_B|/d^2 and is directed along
\* A - B, away from B, when the charges have the same sign (H-H, Cl-Cl), and
\* toward B when they have opposite signs (H-Cl, Cl-H).
C15_CoulombLaw ==
  \A r \in 0 .. timesteps - 2 :
    \A m \in Molecules :
      CoulombDone(r, m) =>
        \A j \in Molecules \ {m} :
          \A A \in Atoms(r, m) :
            \A B \in Atoms(r, j) :
              IsCoulomb(A[1], A[2], B[1], B[2],
                        coulomb_force(A[1], A[2], B[1], B[2]))

\* the Coulomb pass of a later step is complete, and an atom is pushed away
\* from a like charge and pulled toward an unlike one
C15_Witness ==
  /\ mpc = "integrate"
  /\ t >= 1
  /\ num_molecules >= 2
  /\ Dot(coulomb_force(position_H[t][0], charge_H, position_H[t][1], charge_H),
         VSub(position_H[t][0], position_H[t][1])) > 0
  /\ Dot(coulomb_force(position_H[t][0], charge_H, position_Cl[t][1], charge_Cl),
         VSub(position_H[t][0], position_Cl[t][1])) < 0

\* the rows of the arrays that hold positions and velocities
Kinematics == <<position_H, position_Cl, velocity_H, velocity_Cl>>
\* the iteration is at work on the row t
InIteration == mpc \in {"spring", "coulomb", "integrate"}

\* C16: the integration is explicit and synchronous: every spring and
\* Coulomb acceleration of the row r is computed from position_H[r] and
\* position_Cl[r] only; while the forces of the iteration t are computed the
\* rows t+1 are not yet written, so no force reads them; and the rows t+1 of
\* the positions and velocities are written only after the accelerations of
\* all atoms for the row t are complete, in one step that changes no other
\* row.
C16_Synchronous ==
  /\ [](/\ \A r \in 0 .. timesteps - 2 :
             \A m \in Molecules :
               /\ SpringDone(r, m) =>
                    <<spring_acc_H[r][m], spring_acc_Cl[r][m]>> =
                      SpringAcc(position_H[r][m], position_Cl[r][m])
               /\ CoulombDone(r, m) =>
                    <<coulomb_acc_H[r][m], coulomb_acc_Cl[r][m]>> =
                      CoulombAcc(position_H[r], position_Cl[r], m)
        /\ InIteration =>
             /\ \A k \in 1 .. 4 : Kinematics[k][t + 1] = [m \in Molecules |-> ZeroVec]
             /\ \A a \in {"position_H", "position_Cl", "velocity_H", "velocity_Cl"} :
                  \A k \in 1 .. Len(writes[a]) : writes[a][k][1] <= t)
  /\ [][Kinematics' # Kinematics =>
          /\ mpc = "integrate"
          /\ \A m \in Molecules : SpringDone(t, m) /\ CoulombDone(t, m)
          /\ \A k \in 1 .. 4 :
               \A r \in 0 .. timesteps - 1 :
                 r # t + 1 => Kinematics'[k][r] = Kinematics[k][r]]_vars

\* the forces of a later iteration are complete while the rows t+1 are still
\* unwritten and the row t differs from the row t-1
C16_Witness ==
  /\ mpc = "integrate"
  /\ t >= 2
  /\ position_H[t] # position_H[t - 1]
  /\ spring_acc_H[t] # spring_acc_H[t - 1]
  /\ position_H[t + 1] = [m \in Molecules |-> ZeroVec]

\* the progress lines printed so far, and the values of t they show
ProgressLines == SelectSeq(printed, LAMBDA l : l.line = "progress")
\* tt is a multiple of int(ts/20) in 1 .. ts-2
IsProgressTime(tt, ts) ==
  /\ tt \in 1 .. ts - 2
  /\ \E q \in 1 .. ts : tt = q * (ts \div 20)
\* the values of t the loop of the notebook, with timesteps = 5000, prints
ProgressTimes5000 == {tt \in 0 .. 5000 - 2 : tt # 0 /\ tt % Stride(5000) = 0}

\* C17: progress is printed at a fixed stride: a line 't of timesteps' is
\* printed exactly for the t in 1..timesteps-2 that are multiples of
\* int(timesteps/20), in increasing order and never for t = 0; with
\* timesteps = 5000 these are the 19 values 250, 500, ..., 4750; one summary
\* line follows after the loop.
C17_ProgressStride ==
  /\ \A k \in 1 .. Len(ProgressLines) :
       /\ IsProgressTime(ProgressLines[k].n, timesteps)
       /\ ProgressLines[k].of = timesteps
       /\ k > 1 => ProgressLines[k - 1].n < ProgressLines[k].n
  /\ \A tt \in 0 .. Completed - 1 :
       IsProgressTime(tt, timesteps) /\ mpc # "error" =>
         \E k \in 1 .. Len(ProgressLines) : ProgressLines[k].n = tt
  /\ \A k \in 1 .. Len(printed) :
       printed[k].line = "summary" <=> (mpc = "done" /\ k = Len(printed))
  /\ mpc = "done" => printed # <<>>
  /\ ProgressTimes5000 = {250 * k : k \in 1 .. 19}

\* a run with a stride of 2 has ended: 19 progress lines and the summary
C17_Witness ==
  /\ mpc = "done"
  /\ timesteps \div 20 = 2
  /\ Len(ProgressLines) = 19
  /\ ProgressLines[1].n = 2
  /\ Len(printed) = 20

\* C19: for every timesteps >= 2 the loop completes all its timesteps-1
\* iterations without raising an error: the progress check never divides by
\* zero.
C19_NoError ==
  /\ timesteps >= 2 => mpc # "error"
  /\ mpc = "done" => Completed = timesteps - 1

====
